---- MODULE Spec2Model ----
(***************************************************************************)
(* Model of qutip/continous_variables.py: covariance and correlation       *)
(* matrices of two bosonic modes, the Wigner covariance matrix and the     *)
(* logarithmic negativity.                                                 *)
(*                                                                         *)
(* Scalars are exact elements of Z[sqrt 2, i] over a power of two:         *)
(*   <<a, b, c, d, e>>  stands for  ((a + b*sqrt2) + i*(c + d*sqrt2)) / 2^e *)
(* kept in lowest terms (e minimal), so equal numbers are equal tuples.    *)
(* Operators (Qobj) are square matrices of scalars, as sequences of rows.  *)
(* Python's 0-based indices 0..3 are the model's 1..4.                     *)
(* Floating-point rounding is not modelled: arithmetic is exact.           *)
(***************************************************************************)
EXTENDS Integers, Sequences

(* ------------------------------ bounds -------------------------------- *)
NumFieldOps == 3
NumStates == 5
NumR == 2
MaxBasisLen == 2
MaxV == 4

(* ------------------------------ scalars ------------------------------- *)
None == <<>>

Zero == <<0, 0, 0, 0, 0>>
One == <<1, 0, 0, 0, 0>>
ImagUnit == <<0, 0, 1, 0, 0>>
NumInt(n) == <<n, 0, 0, 0, 0>>

RECURSIVE Norm(_)
Norm(x) ==
    IF x[5] > 0 /\ x[1] % 2 = 0 /\ x[2] % 2 = 0 /\ x[3] % 2 = 0 /\ x[4] % 2 = 0
    THEN Norm(<<x[1] \div 2, x[2] \div 2, x[3] \div 2, x[4] \div 2, x[5] - 1>>)
    ELSE x

RECURSIVE Pow2(_)
Pow2(n) == IF n = 0 THEN 1 ELSE 2 * Pow2(n - 1)

NumAdd(x, y) ==
    IF x = Zero THEN y ELSE IF y = Zero THEN x ELSE
    LET e == IF x[5] > y[5] THEN x[5] ELSE y[5]
        fx == Pow2(e - x[5])
        fy == Pow2(e - y[5])
    IN Norm(<<fx * x[1] + fy * y[1], fx * x[2] + fy * y[2],
              fx * x[3] + fy * y[3], fx * x[4] + fy * y[4], e>>)

NumNeg(x) == <<-x[1], -x[2], -x[3], -x[4], x[5]>>

NumSub(x, y) == NumAdd(x, NumNeg(y))

NumMul(x, y) ==
    IF x = Zero \/ y = Zero THEN Zero ELSE
    Norm(<<x[1] * y[1] + 2 * x[2] * y[2] - (x[3] * y[3] + 2 * x[4] * y[4]),
           x[1] * y[2] + x[2] * y[1] - (x[3] * y[4] + x[4] * y[3]),
           x[1] * y[3] + 2 * x[2] * y[4] + x[3] * y[1] + 2 * x[4] * y[2],
           x[1] * y[4] + x[2] * y[3] + x[3] * y[2] + x[4] * y[1],
           x[5] + y[5]>>)

NumConj(x) == <<x[1], x[2], -x[3], -x[4], x[5]>>

\* np.real
NumReal(x) == Norm(<<x[1], x[2], 0, 0, x[5]>>)

\* z / np.sqrt(2):  (a + b*sqrt2)/sqrt2 = (2b + a*sqrt2)/2
NumDivSqrt2(x) == Norm(<<2 * x[2], x[1], 2 * x[4], x[3], x[5] + 1>>)

RECURSIVE SumTo(_, _)
SumTo(f, n) == IF n = 0 THEN Zero ELSE NumAdd(SumTo(f, n - 1), f[n])

(* ------------------------ operators (Qobj) ---------------------------- *)
\* Matrices are built eagerly, row by row, as np.array does.
\* Qobj + Qobj
OpAdd(A, B) ==
    [i \in 1..Len(A) |->
        [j \in 1..Len(A) |->
            NumAdd(A[i][j], B[i][j])] \o <<>>] \o <<>>

\* Qobj - Qobj
OpSub(A, B) ==
    [i \in 1..Len(A) |->
        [j \in 1..Len(A) |->
            NumSub(A[i][j], B[i][j])] \o <<>>] \o <<>>

\* Qobj * Qobj: the matrix product
OpMul(A, B) ==
    [i \in 1..Len(A) |->
        [j \in 1..Len(A) |->
            SumTo([k \in 1..Len(A) |-> NumMul(A[i][k], B[k][j])], Len(A))] \o <<>>] \o <<>>

\* scalar * Qobj
OpScale(z, A) ==
    [i \in 1..Len(A) |->
        [j \in 1..Len(A) |->
            NumMul(z, A[i][j])] \o <<>>] \o <<>>

\* Qobj / np.sqrt(2)
OpDivSqrt2(A) ==
    [i \in 1..Len(A) |->
        [j \in 1..Len(A) |->
            NumDivSqrt2(A[i][j])] \o <<>>] \o <<>>

\* Qobj.dag(): the conjugate transpose
dag(A) ==
    [i \in 1..Len(A) |->
        [j \in 1..Len(A) |->
            NumConj(A[j][i])] \o <<>>] \o <<>>

\* qutip.expect.expect(oper, state) for a density matrix: Tr(oper * state)
expect(oper, state) ==
    SumTo([i \in 1..Len(oper) |->
              SumTo([k \in 1..Len(oper) |-> NumMul(oper[i][k], state[k][i])],
                    Len(oper))],
          Len(oper))

(* ----------------------- outcomes of a call --------------------------- *)
Pending == [status |-> "pending", value |-> None, message |-> ""]
Returned(v) == [status |-> "returned", value |-> v, message |-> ""]
ValueError(msg) == [status |-> "raised", value |-> None, message |-> msg]

(* --------------------- continous_variables.py ------------------------- *)

\* Faulty variant: op1 * op2 twice instead of the symmetrized product.
covariance_matrix_asymmetric(basis, rho) ==
    [r \in 1..Len(basis) |->
        [c \in 1..Len(basis) |->
            LET op1 == basis[c]
                op2 == basis[r]
            IN NumSub(expect(OpAdd(OpMul(op1, op2), OpMul(op1, op2)), rho),
                      NumMul(expect(op1, rho), expect(op2, rho)))] \o <<>>] \o <<>>

\* Faulty variant: expect(op1) squared instead of expect(op1) * expect(op2).
covariance_matrix_wrong_mean(basis, rho) ==
    [r \in 1..Len(basis) |->
        [c \in 1..Len(basis) |->
            LET op1 == basis[c]
                op2 == basis[r]
            IN NumSub(expect(OpAdd(OpMul(op1, op2), OpMul(op2, op1)), rho),
                      NumMul(expect(op1, rho), expect(op1, rho)))] \o <<>>] \o <<>>

\* Faulty variant: the product of the means is not subtracted.
covariance_matrix_no_mean(basis, rho) ==
    [r \in 1..Len(basis) |->
        [c \in 1..Len(basis) |->
            LET op1 == basis[c]
                op2 == basis[r]
            IN expect(OpAdd(OpMul(op1, op2), OpMul(op2, op1)), rho)] \o <<>>] \o <<>>

\* np.array([[... for op1 in basis] for op2 in basis]): the outer loop
\* (op2) runs over rows, the inner loop (op1) over columns.
covariance_matrix(basis, rho) ==
    [r \in 1..Len(basis) |->
        [c \in 1..Len(basis) |->
            LET op1 == basis[c]
                op2 == basis[r]
            IN NumSub(expect(OpAdd(OpMul(op1, op2), OpMul(op2, op1)), rho),
                      NumMul(expect(op1, rho), expect(op2, rho)))] \o <<>>] \o <<>>

\* Faulty variant: the numeric branch multiplies in the other order.
_correlation_matrix_swapped(basis, rho) ==
    IF rho = None
    THEN [r \in 1..Len(basis) |->
             [c \in 1..Len(basis) |->
                 LET op1 == basis[c]
                     op2 == basis[r]
                 IN OpMul(op1, op2)] \o <<>>] \o <<>>
    ELSE [r \in 1..Len(basis) |->
             [c \in 1..Len(basis) |->
                 LET op1 == basis[c]
                     op2 == basis[r]
                 IN expect(OpMul(op2, op1), rho)] \o <<>>] \o <<>>

_correlation_matrix(basis, rho) ==
    IF rho = None
    THEN \* array of operators
         [r \in 1..Len(basis) |->
             [c \in 1..Len(basis) |->
                 LET op1 == basis[c]
                     op2 == basis[r]
                 IN OpMul(op1, op2)] \o <<>>] \o <<>>
    ELSE \* array of expectation values
         [r \in 1..Len(basis) |->
             [c \in 1..Len(basis) |->
                 LET op1 == basis[c]
                     op2 == basis[r]
                 IN expect(OpMul(op1, op2), rho)] \o <<>>] \o <<>>

correlation_matrix_field(a1, a2, rho) ==
    LET basis == <<a1, dag(a1), a2, dag(a2)>>
    IN _correlation_matrix(basis, rho)

\* Faulty variant: the momenta lack the factor 1j.
correlation_matrix_quadrature_real_p(a1, a2, rho) ==
    LET x1 == OpDivSqrt2(OpAdd(a1, dag(a1)))
        p1 == OpDivSqrt2(OpSub(a1, dag(a1)))
        x2 == OpDivSqrt2(OpAdd(a2, dag(a2)))
        p2 == OpDivSqrt2(OpSub(a2, dag(a2)))
        basis == <<x1, p1, x2, p2>>
    IN _correlation_matrix(basis, rho)

correlation_matrix_quadrature(a1, a2, rho) ==
    LET x1 == OpDivSqrt2(OpAdd(a1, dag(a1)))
        p1 == OpDivSqrt2(OpScale(ImagUnit, OpSub(a1, dag(a1))))
        x2 == OpDivSqrt2(OpAdd(a2, dag(a2)))
        p2 == OpDivSqrt2(OpScale(ImagUnit, OpSub(a2, dag(a2))))
        basis == <<x1, p1, x2, p2>>
    IN _correlation_matrix(basis, rho)

MsgNeedRho == "Must give rho if using field operators (a1 and a2)"
MsgNeedOpsOrR ==
    "Must give either field operators (a1 and a2) or a precomputed correlation matrix (R)"

\* Faulty variant: R[i, j] + R[i, j].
WignerFromR_index_slip(R, rho) ==
    IF rho = None
    THEN [j \in 1..4 |->
             [i \in 1..4 |-> NumReal(NumAdd(R[i][j], R[i][j]))] \o <<>>] \o <<>>
    ELSE [j \in 1..4 |->
             [i \in 1..4 |->
                 NumReal(expect(OpAdd(R[i][j], R[i][j]), rho))] \o <<>>] \o <<>>

\* np.array([[f(i, j) for i in range(4)] for j in range(4)]): j is the row
WignerFromR(R, rho) ==
    IF rho = None
    THEN [j \in 1..4 |->
             [i \in 1..4 |-> NumReal(NumAdd(R[i][j], R[j][i]))] \o <<>>] \o <<>>
    ELSE [j \in 1..4 |->
             [i \in 1..4 |->
                 NumReal(expect(OpAdd(R[i][j], R[j][i]), rho))] \o <<>>] \o <<>>

\* Faulty variant: rho is tested before the field operators.
wigner_covariance_matrix_rho_first(a1, a2, R, rho) ==
    IF R # None
    THEN Returned(WignerFromR(R, rho))
    ELSE IF rho # None
    THEN IF a1 # None /\ a2 # None
         THEN LET x1 == OpDivSqrt2(OpAdd(a1, dag(a1)))
                  p1 == OpDivSqrt2(OpScale(ImagUnit, OpSub(a1, dag(a1))))
                  x2 == OpDivSqrt2(OpAdd(a2, dag(a2)))
                  p2 == OpDivSqrt2(OpScale(ImagUnit, OpSub(a2, dag(a2))))
              IN Returned(covariance_matrix(<<x1, p1, x2, p2>>, rho))
         ELSE ValueError(MsgNeedOpsOrR)
    ELSE ValueError(MsgNeedOpsOrR)

\* Faulty variant: the field operators are tested before R.
wigner_covariance_matrix_operators_first(a1, a2, R, rho) ==
    IF a1 # None /\ a2 # None
    THEN IF rho # None
         THEN LET x1 == OpDivSqrt2(OpAdd(a1, dag(a1)))
                  p1 == OpDivSqrt2(OpScale(ImagUnit, OpSub(a1, dag(a1))))
                  x2 == OpDivSqrt2(OpAdd(a2, dag(a2)))
                  p2 == OpDivSqrt2(OpScale(ImagUnit, OpSub(a2, dag(a2))))
              IN Returned(covariance_matrix(<<x1, p1, x2, p2>>, rho))
         ELSE ValueError(MsgNeedRho)
    ELSE IF R # None
    THEN Returned(WignerFromR(R, rho))
    ELSE ValueError(MsgNeedOpsOrR)

\* Faulty variant: the quadratures are not divided by sqrt(2).
wigner_covariance_matrix_unnormalised(a1, a2, R, rho) ==
    IF R # None
    THEN Returned(WignerFromR(R, rho))
    ELSE IF a1 # None /\ a2 # None
    THEN IF rho # None
         THEN LET x1 == OpAdd(a1, dag(a1))
                  p1 == OpScale(ImagUnit, OpSub(a1, dag(a1)))
                  x2 == OpAdd(a2, dag(a2))
                  p2 == OpScale(ImagUnit, OpSub(a2, dag(a2)))
              IN Returned(covariance_matrix(<<x1, p1, x2, p2>>, rho))
         ELSE ValueError(MsgNeedRho)
    ELSE ValueError(MsgNeedOpsOrR)

wigner_covariance_matrix(a1, a2, R, rho) ==
    IF R # None
    THEN Returned(WignerFromR(R, rho))
    ELSE IF a1 # None /\ a2 # None
    THEN IF rho # None
         THEN LET x1 == OpDivSqrt2(OpAdd(a1, dag(a1)))
                  p1 == OpDivSqrt2(OpScale(ImagUnit, OpSub(a1, dag(a1))))
                  x2 == OpDivSqrt2(OpAdd(a2, dag(a2)))
                  p2 == OpDivSqrt2(OpScale(ImagUnit, OpSub(a2, dag(a2))))
              IN Returned(covariance_matrix(<<x1, p1, x2, p2>>, rho))
         ELSE ValueError(MsgNeedRho)
    ELSE ValueError(MsgNeedOpsOrR)

(* ---------------- wigner_logarithm_negativity ------------------------- *)
\* The sign of a real rational scalar: -1, 0 or 1.
Sign(x) ==
    CASE x[2] = 0 /\ x[3] = 0 /\ x[4] = 0 ->
        IF x[1] > 0 THEN 1 ELSE IF x[1] < 0 THEN -1 ELSE 0

\* V[r0:r0+2, c0:c0+2] (0-based r0, c0)
Block(V, r0, c0) ==
    <<<<V[r0 + 1][c0 + 1], V[r0 + 1][c0 + 2]>>,
      <<V[r0 + 2][c0 + 1], V[r0 + 2][c0 + 2]>>>>

Minor(M, j) ==
    [r \in 1..(Len(M) - 1) |->
        [c \in 1..(Len(M) - 1) |->
            M[r + 1][IF c < j THEN c ELSE c + 1]] \o <<>>] \o <<>>

\* np.linalg.det: the determinant, by expansion along the first row
RECURSIVE det(_)
det(M) ==
    IF Len(M) = 1 THEN M[1][1]
    ELSE SumTo([j \in 1..Len(M) |->
                   LET t == NumMul(M[1][j], det(Minor(M, j)))
                   IN IF j % 2 = 1 THEN t ELSE NumNeg(t)],
               Len(M))

\* Floating-point values of the computation, kept symbolically:
\*   kind "nan"   a NaN (square root of a negative number);
\*   kind "inf"   +infinity (-log(0));
\*   kind "zero"  the number 0;
\*   kind "lognu" the finite number -log(2*nu),
\*                nu = sqrt(sigma/2 - sqrt(disc)/2), with its sign.
FloatNaN == [kind |-> "nan", sign |-> 0, sigma |-> Zero, disc |-> Zero]
FloatInf == [kind |-> "inf", sign |-> 1, sigma |-> Zero, disc |-> Zero]
FloatZero == [kind |-> "zero", sign |-> 0, sigma |-> Zero, disc |-> Zero]

\* Sign of nu^2 = sigma/2 - sqrt(disc)/2 for disc >= 0: negative when
\* sigma < 0, else the sign of sigma^2 - disc.
SignNu2(sigma, disc) ==
    IF Sign(sigma) < 0 THEN -1
    ELSE Sign(NumSub(NumMul(sigma, sigma), disc))

\* Sign of 4*nu^2 - 1 = (2*sigma - 1) - 2*sqrt(disc) for disc >= 0.
SignFourNu2MinusOne(sigma, disc) ==
    LET t == NumSub(NumMul(NumInt(2), sigma), One)
    IN IF Sign(t) < 0 THEN -1
       ELSE Sign(NumSub(NumMul(t, t), NumMul(NumInt(4), disc)))

\* lognu = -np.log(2 * nu), nu = np.sqrt(sigma/2 - np.sqrt(disc)/2)
LogNu(sigma, disc) ==
    IF Sign(disc) < 0 THEN FloatNaN
    ELSE IF SignNu2(sigma, disc) < 0 THEN FloatNaN
    ELSE IF SignNu2(sigma, disc) = 0 THEN FloatInf
    ELSE [kind |-> "lognu", sign |-> -SignFourNu2MinusOne(sigma, disc),
          sigma |-> sigma, disc |-> disc]

\* Faulty variant: no clamp at zero.
PyMax0_unclamped(x) == x

\* Python's max(0, x): x when x > 0, else 0 (a NaN is not > 0)
PyMax0(x) == IF x.kind # "nan" /\ x.sign > 0 THEN x ELSE FloatZero

wigner_logarithm_negativity(V) ==
    LET A == Block(V, 0, 0)
        B == Block(V, 2, 2)
        C == Block(V, 0, 2)
        sigma == NumSub(NumAdd(det(A), det(B)), NumMul(NumInt(2), det(C)))
        disc == NumSub(NumMul(sigma, sigma), NumMul(NumInt(4), det(V)))
        lognu == LogNu(sigma, disc)
        logneg == PyMax0(lognu)
    IN logneg

(* ------------------------- inputs of the calls ------------------------ *)
\* Two modes, each truncated to the Fock states |0>, |1>; basis |n1 n2>
\* in the order |00>, |01>, |10>, |11>.
qeye4 ==
    <<<<One, Zero, Zero, Zero>>, <<Zero, One, Zero, Zero>>,
      <<Zero, Zero, One, Zero>>, <<Zero, Zero, Zero, One>>>>

\* tensor(destroy(2), qeye(2)): the annihilation operator of mode 1
destroy1 ==
    <<<<Zero, Zero, One, Zero>>, <<Zero, Zero, Zero, One>>,
      <<Zero, Zero, Zero, Zero>>, <<Zero, Zero, Zero, Zero>>>>

\* tensor(qeye(2), destroy(2)): the annihilation operator of mode 2
destroy2 ==
    <<<<Zero, One, Zero, Zero>>, <<Zero, Zero, Zero, Zero>>,
      <<Zero, Zero, Zero, One>>, <<Zero, Zero, Zero, Zero>>>>

\* The field operators a call may be given: the two modes, a mixture of
\* them, and displaced modes a + alpha.
FieldOp(k) ==
    CASE k = 1 -> destroy1
      [] k = 2 -> destroy2
      [] k = 3 -> OpAdd(destroy1, OpScale(ImagUnit, destroy2))
      [] OTHER -> OpAdd(destroy1, OpScale(NumInt(k - 3), qeye4))

FieldOps == {FieldOp(k) : k \in 1..NumFieldOps}

\* |psi><psi| / 2^e for a ket with Gaussian-integer components
ket2dm(psi, e) ==
    [i \in 1..Len(psi) |->
        [j \in 1..Len(psi) |->
            Norm(<<psi[i][1] * psi[j][1] + psi[i][3] * psi[j][3], 0,
                          psi[i][3] * psi[j][1] - psi[i][1] * psi[j][3], 0, e>>)] \o <<>>] \o <<>>

\* The density matrices a call may be given.
State(k) ==
    CASE k = 1 -> ket2dm(<<One, Zero, Zero, Zero>>, 0)          \* |00>
      [] k = 2 -> ket2dm(<<One, Zero, Zero, One>>, 1)           \* |00> + |11>
      [] k = 3 -> ket2dm(<<One, Zero, One, Zero>>, 1)           \* |00> + |10>
      [] k = 4 -> ket2dm(<<One, ImagUnit, Zero, Zero>>, 1)      \* |00> + i|01>
      [] k = 5 -> OpScale(<<1, 0, 0, 0, 2>>, qeye4)             \* mixed
      [] OTHER -> ket2dm(<<One, ImagUnit, One, ImagUnit>>, 2)

States == {State(k) : k \in 1..NumStates}

\* The two-mode vacuum
Vacuum == State(1)

\* Precomputed correlation matrices a call may be given as R: numeric ones
\* (for a call without rho) and matrices of operators (for a call with rho).
RNumeric(k) ==
    IF k % 2 = 1
    THEN correlation_matrix_quadrature(destroy1, destroy2, State(k + 1))
    ELSE correlation_matrix_field(destroy1, FieldOp(k + 1), State(k + 1))

ROperator(k) ==
    IF k % 2 = 1
    THEN correlation_matrix_quadrature(destroy1, FieldOp(k + 1), None)
    ELSE correlation_matrix_field(destroy1, FieldOp(k + 1), None)

\* Hermitian quadratures of mode 1, as basis operators
X1 == OpDivSqrt2(OpAdd(destroy1, dag(destroy1)))
P1 == OpDivSqrt2(OpScale(ImagUnit, OpSub(destroy1, dag(destroy1))))

BasisOps == FieldOps \cup {X1, P1}

RECURSIVE SeqsOfLen(_, _)
SeqsOfLen(S, n) ==
    IF n = 0 THEN {<<>>}
    ELSE {Append(s, x) : s \in SeqsOfLen(S, n - 1), x \in S}

Bases == UNION {SeqsOfLen(BasisOps, n) : n \in 1..MaxBasisLen}

\* Covariance matrices in standard form, entries in quarters:
\*   [[a, 0, c1, 0], [0, a, 0, c2], [c1, 0, b, 0], [0, c2, 0, b]] / 4
Quarter(n) == Norm(<<n, 0, 0, 0, 2>>)

StandardForm(a, b, c1, c2) ==
    <<<<Quarter(a), Zero, Quarter(c1), Zero>>,
      <<Zero, Quarter(a), Zero, Quarter(c2)>>,
      <<Quarter(c1), Zero, Quarter(b), Zero>>,
      <<Zero, Quarter(c2), Zero, Quarter(b)>>>>

CovarianceInputs ==
    {StandardForm(a, b, c1, c2) :
        a \in 1..MaxV, b \in 1..MaxV, c1 \in (-MaxV)..MaxV, c2 \in (-MaxV)..MaxV}

(* ------------------------------ state --------------------------------- *)
VARIABLES
    a1, a2, R, rho,   \* arguments of the two-mode functions (None: absent)
    basis,            \* argument of covariance_matrix / _correlation_matrix
    V,                \* the Wigner covariance matrix the caller holds
    ret               \* outcome of each call made so far

vars == <<a1, a2, R, rho, basis, V, ret>>

NoCalls ==
    [wigner |-> Pending, wigner_R |-> Pending, logneg |-> Pending,
     cov |-> Pending, sym |-> Pending, num |-> Pending,
     field |-> Pending, quad |-> Pending]

(* ------------------------------ calls --------------------------------- *)
\* V = wigner_covariance_matrix(a1, a2, R, rho)
Call_wigner_covariance_matrix ==
    /\ ret.wigner.status = "pending"
    /\ LET out == wigner_covariance_matrix(a1, a2, R, rho)
       IN /\ ret' = [ret EXCEPT !.wigner = out]
          /\ V' = IF out.status = "returned" THEN out.value ELSE V
    /\ UNCHANGED <<a1, a2, R, rho, basis>>

\* wigner_logarithm_negativity(V)
Call_wigner_logarithm_negativity ==
    /\ V # None
    /\ ret.logneg.status = "pending"
    /\ ret' = [ret EXCEPT !.logneg = Returned(wigner_logarithm_negativity(V))]
    /\ UNCHANGED <<a1, a2, R, rho, basis, V>>

\* wigner_covariance_matrix(a1, a2, rho=rho)
Call_wigner_field_mode ==
    /\ ret.wigner.status = "pending"
    /\ ret' = [ret EXCEPT !.wigner = wigner_covariance_matrix(a1, a2, None, rho)]
    /\ UNCHANGED <<a1, a2, R, rho, basis, V>>

\* R = correlation_matrix_quadrature(a1, a2)
Call_correlation_matrix_quadrature_symbolic ==
    /\ R = None
    /\ R' = correlation_matrix_quadrature(a1, a2, None)
    /\ UNCHANGED <<a1, a2, rho, basis, V, ret>>

\* wigner_covariance_matrix(R=R, rho=rho)
Call_wigner_R_mode ==
    /\ R # None
    /\ ret.wigner_R.status = "pending"
    /\ ret' = [ret EXCEPT !.wigner_R = wigner_covariance_matrix(None, None, R, rho)]
    /\ UNCHANGED <<a1, a2, R, rho, basis, V>>

\* covariance_matrix(basis, rho)
Call_covariance_matrix ==
    /\ ret.cov.status = "pending"
    /\ ret' = [ret EXCEPT !.cov = Returned(covariance_matrix(basis, rho))]
    /\ UNCHANGED <<a1, a2, R, rho, basis, V>>

\* _correlation_matrix(basis)
Call_correlation_matrix_symbolic ==
    /\ ret.cov.status = "returned"
    /\ ret.sym.status = "pending"
    /\ ret' = [ret EXCEPT !.sym = Returned(_correlation_matrix(basis, None))]
    /\ UNCHANGED <<a1, a2, R, rho, basis, V>>

\* _correlation_matrix(basis, rho)
Call_correlation_matrix_numeric ==
    /\ ret.sym.status = "returned"
    /\ ret.num.status = "pending"
    /\ ret' = [ret EXCEPT !.num = Returned(_correlation_matrix(basis, rho))]
    /\ UNCHANGED <<a1, a2, R, rho, basis, V>>

\* correlation_matrix_field(a1, a2, rho)
Call_correlation_matrix_field ==
    /\ ret.field.status = "pending"
    /\ ret' = [ret EXCEPT !.field = Returned(correlation_matrix_field(a1, a2, rho))]
    /\ UNCHANGED <<a1, a2, R, rho, basis, V>>

\* correlation_matrix_quadrature(a1, a2, rho)
Call_correlation_matrix_quadrature ==
    /\ ret.quad.status = "pending"
    /\ ret' = [ret EXCEPT !.quad = Returned(correlation_matrix_quadrature(a1, a2, rho))]
    /\ UNCHANGED <<a1, a2, R, rho, basis, V>>

(* -------------------------- specifications ---------------------------- *)
\* A caller of wigner_covariance_matrix with every presence / absence
\* combination of its arguments, who then passes the matrix it got to
\* wigner_logarithm_negativity.
Init ==
    /\ a1 \in FieldOps \cup {None}
    /\ a2 \in FieldOps \cup {None}
    /\ rho \in States \cup {None}
    /\ R \in {None} \cup
             (IF rho = None THEN {RNumeric(k) : k \in 1..NumR}
                            ELSE {ROperator(k) : k \in 1..NumR})
    /\ basis = None
    /\ V = None
    /\ ret = NoCalls

Next ==
    \/ Call_wigner_covariance_matrix
    \/ Call_wigner_logarithm_negativity

Spec == Init /\ [][Next]_vars

\* A caller of wigner_logarithm_negativity with a covariance matrix in
\* standard form.
InitLogNeg ==
    /\ a1 = None /\ a2 = None /\ R = None /\ rho = None /\ basis = None
    /\ V \in CovarianceInputs
    /\ ret = NoCalls

NextLogNeg == Call_wigner_logarithm_negativity

SpecLogNeg == InitLogNeg /\ [][NextLogNeg]_vars

\* A caller who computes the symbolic quadrature correlation matrix of its
\* field operators and calls wigner_covariance_matrix in both input modes.
InitModes ==
    /\ a1 \in FieldOps
    /\ a2 \in FieldOps
    /\ rho \in States
    /\ R = None /\ basis = None /\ V = None
    /\ ret = NoCalls

NextModes ==
    \/ Call_correlation_matrix_quadrature_symbolic
    \/ Call_wigner_field_mode
    \/ Call_wigner_R_mode

SpecModes == InitModes /\ [][NextModes]_vars

\* A caller who passes a basis of operators to covariance_matrix, then to
\* _correlation_matrix without rho, then to _correlation_matrix with rho.
InitBasis ==
    /\ a1 = None /\ a2 = None /\ R = None /\ V = None
    /\ basis \in Bases
    /\ rho \in States
    /\ ret = NoCalls

NextBasis ==
    \/ Call_covariance_matrix
    \/ Call_correlation_matrix_symbolic
    \/ Call_correlation_matrix_numeric

SpecBasis == InitBasis /\ [][NextBasis]_vars

\* A caller of correlation_matrix_field and correlation_matrix_quadrature
\* with the same arguments.
InitCorr ==
    /\ a1 \in FieldOps
    /\ a2 \in FieldOps
    /\ rho \in States \cup {None}
    /\ R = None /\ basis = None /\ V = None
    /\ ret = NoCalls

NextCorr ==
    \/ Call_correlation_matrix_field
    \/ Call_correlation_matrix_quadrature

SpecCorr == InitCorr /\ [][NextCorr]_vars

(* ============================== claims ================================ *)
I4 ==
    <<<<One, Zero, Zero, Zero>>, <<Zero, One, Zero, Zero>>,
      <<Zero, Zero, One, Zero>>, <<Zero, Zero, Zero, One>>>>

\* The quadratures [x1, p1, x2, p2] of two field operators:
\* x = (a + a^dagger)/sqrt2, p = i(a - a^dagger)/sqrt2.
QuadratureBasis(b1, b2) ==
    <<OpDivSqrt2(OpAdd(b1, dag(b1))),
      OpDivSqrt2(OpScale(ImagUnit, OpSub(b1, dag(b1)))),
      OpDivSqrt2(OpAdd(b2, dag(b2))),
      OpDivSqrt2(OpScale(ImagUnit, OpSub(b2, dag(b2))))>>

\* <{op_r, op_c}> - <op_c><op_r>
CovarianceEntry(ops, st, r, c) ==
    NumSub(expect(OpAdd(OpMul(ops[c], ops[r]), OpMul(ops[r], ops[c])), st),
           NumMul(expect(ops[c], st), expect(ops[r], st)))

\* Re(R[i][j] + R[j][i]), through the expectation value when rho is given
RModeEntry(i, j) ==
    IF rho = None
    THEN NumReal(NumAdd(R[i][j], R[j][i]))
    ELSE NumReal(expect(OpAdd(R[i][j], R[j][i]), rho))

IsHermitian(A) == dag(A) = A

\* C1: wigner_covariance_matrix raises the invalid-argument-combination
\* error, returning no matrix, when a1, a2, R and rho are all None (message
\* "Must give either field operators (a1 and a2) or a precomputed
\* correlation matrix (R)") and when a1 and a2 are set with R and rho None
\* (message "Must give rho if using field operators (a1 and a2)").
C1_InvalidCombinationRaises ==
    ret.wigner.status # "pending" =>
        /\ (a1 = None /\ a2 = None /\ R = None /\ rho = None) =>
              /\ ret.wigner.status = "raised"
              /\ ret.wigner.message =
                    "Must give either field operators (a1 and a2) or a precomputed correlation matrix (R)"
              /\ ret.wigner.value = None
              /\ V = None
        /\ (a1 # None /\ a2 # None /\ R = None /\ rho = None) =>
              /\ ret.wigner.status = "raised"
              /\ ret.wigner.message =
                    "Must give rho if using field operators (a1 and a2)"
              /\ ret.wigner.value = None
              /\ V = None

C1_Witness ==
    /\ a1 # None /\ a2 # None /\ R = None /\ rho = None
    /\ ret.wigner.status = "raised"

\* C2: covariance_matrix(basis, rho) returns an N x N matrix whose entry at
\* row r, column c is
\*   expect(basis[c]*basis[r] + basis[r]*basis[c], rho)
\*     - expect(basis[c], rho) * expect(basis[r], rho).
C2_CovarianceEntries ==
    ret.cov.status = "returned" =>
        LET C == ret.cov.value
            N == Len(basis)
        IN /\ Len(C) = N
           /\ \A r \in 1..N :
                 /\ Len(C[r]) = N
                 /\ \A c \in 1..N : C[r][c] = CovarianceEntry(basis, rho, r, c)

C2_Witness ==
    /\ ret.cov.status = "returned"
    /\ Len(basis) >= 2
    /\ basis[1] # basis[2]
    /\ expect(basis[1], rho) # Zero
    /\ expect(basis[1], rho) # expect(basis[2], rho)
    /\ ret.cov.value[1][2] # Zero

\* C3: for a basis of Hermitian operators and a density matrix, the matrix
\* covariance_matrix returns is symmetric: C[i][j] = C[j][i].
C3_CovarianceSymmetric ==
    (ret.cov.status = "returned" /\ \A k \in 1..Len(basis) : IsHermitian(basis[k])) =>
        LET C == ret.cov.value
        IN \A i \in 1..Len(basis) : \A j \in 1..Len(basis) : C[i][j] = C[j][i]

C3_Witness ==
    /\ ret.cov.status = "returned"
    /\ Len(basis) >= 2
    /\ \A k \in 1..Len(basis) : IsHermitian(basis[k])
    /\ OpMul(basis[1], basis[2]) # OpMul(basis[2], basis[1])
    /\ expect(OpMul(basis[1], basis[2]), rho) # expect(OpMul(basis[2], basis[1]), rho)

\* C4: the numeric-mode result of _correlation_matrix equals expect(_, rho)
\* applied to each entry of the symbolic-mode result; in both modes the
\* entry at row r, column c is built from basis[c]*basis[r].
C4_NumericIsExpectOfSymbolic ==
    (ret.sym.status = "returned" /\ ret.num.status = "returned") =>
        LET S == ret.sym.value
            M == ret.num.value
            N == Len(basis)
        IN /\ Len(S) = N /\ Len(M) = N
           /\ \A r \in 1..N : \A c \in 1..N :
                 /\ S[r][c] = OpMul(basis[c], basis[r])
                 /\ M[r][c] = expect(S[r][c], rho)
                 /\ M[r][c] = expect(OpMul(basis[c], basis[r]), rho)

C4_Witness ==
    /\ ret.sym.status = "returned"
    /\ ret.num.status = "returned"
    /\ Len(basis) >= 2
    /\ ret.num.value[1][2] # ret.num.value[2][1]

\* C5: when R is given, wigner_covariance_matrix returns the 4 x 4 matrix
\* V[i][j] = Re(R[i][j] + R[j][i]) (rho None) or
\* V[i][j] = Re(expect(R[i][j] + R[j][i], rho)) (rho given), and V is
\* symmetric for every R.
C5_RModeEntries ==
    (R # None /\ ret.wigner.status # "pending") =>
        /\ ret.wigner.status = "returned"
        /\ LET W == ret.wigner.value
           IN /\ Len(W) = 4
              /\ \A i \in 1..4 :
                    /\ Len(W[i]) = 4
                    /\ \A j \in 1..4 :
                          /\ W[i][j] = RModeEntry(i, j)
                          /\ W[i][j] = W[j][i]

C5_Witness ==
    /\ R # None
    /\ rho # None
    /\ ret.wigner.status = "returned"
    /\ R[1][2] # R[2][1]
    /\ ret.wigner.value[1][2] # Zero

\* The determinant of the 2 x 2 block of M at (r0, c0), written out.
Det2(M, r0, c0) ==
    NumSub(NumMul(M[r0 + 1][c0 + 1], M[r0 + 2][c0 + 2]),
           NumMul(M[r0 + 1][c0 + 2], M[r0 + 2][c0 + 1]))

LeadingMinor(M, n) == det([r \in 1..n |-> [c \in 1..n |-> M[r][c]]])

Physical(M) ==
    /\ \A i \in 1..4 : \A j \in 1..4 : M[i][j] = M[j][i]
    /\ \A n \in 1..4 : Sign(LeadingMinor(M, n)) > 0

\* For disc >= 0 and nu^2 > 0:  2*nu >= 1  iff  2*sigma - 1 >= 2*sqrt(disc)
TwoNuAtLeastOne(sigma, disc) ==
    LET t == NumSub(NumMul(NumInt(2), sigma), One)
    IN /\ Sign(t) >= 0
       /\ Sign(NumSub(NumMul(t, t), NumMul(NumInt(4), disc))) >= 0

\* C6: for a valid physical covariance matrix V (real, symmetric, positive
\* definite) wigner_logarithm_negativity returns a non-negative real number:
\* 0 whenever 2*nu >= 1, and -log(2*nu) > 0 only when 2*nu < 1, where
\* nu^2 = sigma/2 - sqrt(sigma^2 - 4 det V)/2 and
\* sigma = det A + det B - 2 det C.
C6_LogNegNonNegative ==
    (ret.logneg.status = "returned" /\ Physical(V)) =>
        LET out == ret.logneg.value
            sigma == NumSub(NumAdd(Det2(V, 0, 0), Det2(V, 2, 2)),
                            NumMul(NumInt(2), Det2(V, 0, 2)))
            disc == NumSub(NumMul(sigma, sigma), NumMul(NumInt(4), det(V)))
        IN /\ out.kind \in {"zero", "lognu"}
           /\ out.sign >= 0
           /\ Sign(disc) >= 0
           /\ TwoNuAtLeastOne(sigma, disc) => out = FloatZero
           /\ ~TwoNuAtLeastOne(sigma, disc) =>
                 /\ out.kind = "lognu" /\ out.sign = 1
                 /\ out.sigma = sigma /\ out.disc = disc

C6_Witness ==
    /\ ret.logneg.status = "returned"
    /\ Physical(V)
    /\ ret.logneg.value.kind = "lognu"
    /\ ret.logneg.value.sign = 1

\* C7: for the two-mode vacuum, with a1 and a2 the two modes' annihilation
\* operators, wigner_covariance_matrix(a1, a2, rho=rho) is the 4 x 4
\* identity, and wigner_logarithm_negativity of the identity is 0
\* (sigma = 2, det V = 1, nu = 1, lognu = -log 2 < 0, clamped to 0).
C7_VacuumIdentityAndZero ==
    /\ (a1 = destroy1 /\ a2 = destroy2 /\ R = None /\ rho = Vacuum
            /\ ret.wigner.status # "pending") =>
          /\ ret.wigner.status = "returned"
          /\ ret.wigner.value = I4
          /\ V = I4
    /\ (V = I4 /\ ret.logneg.status = "returned") =>
          LET sigma == NumSub(NumAdd(Det2(V, 0, 0), Det2(V, 2, 2)),
                              NumMul(NumInt(2), Det2(V, 0, 2)))
              disc == NumSub(NumMul(sigma, sigma), NumMul(NumInt(4), det(V)))
          IN /\ sigma = NumInt(2)
             /\ det(V) = One
             /\ disc = Zero
             /\ ret.logneg.value = FloatZero
             /\ ret.logneg.value.kind = "zero"

C7_Witness ==
    /\ a1 = destroy1 /\ a2 = destroy2 /\ R = None /\ rho = Vacuum
    /\ ret.wigner.status = "returned"
    /\ ret.logneg.status = "returned"

\* The basis change from [a1, a1+, a2, a2+] to [x1, p1, x2, p2].
InvSqrt2 == <<0, 1, 0, 0, 1>>
IOverSqrt2 == <<0, 0, 0, 1, 1>>

U ==
    <<<<InvSqrt2, InvSqrt2, Zero, Zero>>,
      <<IOverSqrt2, NumNeg(IOverSqrt2), Zero, Zero>>,
      <<Zero, Zero, InvSqrt2, InvSqrt2>>,
      <<Zero, Zero, IOverSqrt2, NumNeg(IOverSqrt2)>>>>

RECURSIVE OpSumTo(_, _)
OpSumTo(f, n) == IF n = 1 THEN f[1] ELSE OpAdd(OpSumTo(f, n - 1), f[n])

BasisChangeNum(Rf, r, c) ==
    SumTo([l \in 1..4 |->
              SumTo([k \in 1..4 |-> NumMul(NumMul(U[r][l], Rf[l][k]), U[c][k])], 4)],
          4)

BasisChangeOp(Rf, r, c) ==
    OpSumTo([l \in 1..4 |->
                OpSumTo([k \in 1..4 |->
                            OpScale(NumMul(U[r][l], U[c][k]), Rf[l][k])], 4)],
            4)

\* C8: the results of correlation_matrix_field (basis b = [a1, a1+, a2, a2+])
\* and correlation_matrix_quadrature (basis q = [x1, p1, x2, p2]) for the
\* same a1, a2, rho (rho None included) satisfy
\*   R_quad[r][c] = sum over k, l of U[r][l] * R_field[l][k] * U[c][k]
\* with q_i = sum_k U[i][k] * b_k.
C8_FieldQuadratureBasisChange ==
    (ret.field.status = "returned" /\ ret.quad.status = "returned") =>
        LET Rf == ret.field.value
            Rq == ret.quad.value
        IN \A r \in 1..4 : \A c \in 1..4 :
              Rq[r][c] = IF rho = None THEN BasisChangeOp(Rf, r, c)
                                       ELSE BasisChangeNum(Rf, r, c)

C8_Witness ==
    /\ ret.field.status = "returned"
    /\ ret.quad.status = "returned"
    /\ rho = None
    /\ a1 # a2
    /\ ret.quad.value[1][2] # ret.quad.value[2][1]

\* C9: the dispatch of wigner_covariance_matrix is total over the presence
\* of (a1, a2, R, rho) and its outcomes exclude each other: the R-mode
\* result iff R is given (a1, a2 ignored, no error, with or without rho);
\* the field-operator result iff R is None and a1, a2, rho are all given;
\* the "Must give rho" error iff R is None, a1 and a2 are given and rho is
\* None; the "Must give either ..." error iff R is None and a1 or a2 is
\* None (also when rho is given).  R has numeric entries when rho is None
\* and operator entries when rho is given, as np.real and expect require.
C9_DispatchTotal ==
    ret.wigner.status # "pending" =>
        LET out == ret.wigner
            q == QuadratureBasis(a1, a2)
            needRho == /\ out.status = "raised"
                       /\ out.message = "Must give rho if using field operators (a1 and a2)"
            needEither ==
                /\ out.status = "raised"
                /\ out.message =
                      "Must give either field operators (a1 and a2) or a precomputed correlation matrix (R)"
        IN /\ out.status \in {"returned", "raised"}
           /\ (out.status = "returned") <=>
                 (R # None \/ (a1 # None /\ a2 # None /\ rho # None))
           /\ R # None =>
                 \A i \in 1..4 : \A j \in 1..4 : out.value[i][j] = RModeEntry(i, j)
           /\ (R = None /\ a1 # None /\ a2 # None /\ rho # None) =>
                 \A i \in 1..4 : \A j \in 1..4 :
                    out.value[i][j] = CovarianceEntry(q, rho, i, j)
           /\ needRho <=> (R = None /\ a1 # None /\ a2 # None /\ rho = None)
           /\ needEither <=> (R = None /\ (a1 = None \/ a2 = None))

C9_Witness ==
    /\ R # None /\ a1 # None /\ a2 # None /\ rho = None
    /\ ret.wigner.status = "returned"

\* C10: with R = correlation_matrix_quadrature(a1, a2) and quadratures
\* q = [x1, p1, x2, p2],
\*   wigner_covariance_matrix(a1, a2, rho=rho)[i][j]
\*     = wigner_covariance_matrix(R=R, rho=rho)[i][j]
\*       - expect(q_i, rho) * expect(q_j, rho),
\* so the two modes return the same matrix when the four quadrature
\* expectation values are zero.
C10_ModesDifferByFirstMoments ==
    (ret.wigner.status = "returned" /\ ret.wigner_R.status = "returned") =>
        LET Vf == ret.wigner.value
            Vr == ret.wigner_R.value
            q == QuadratureBasis(a1, a2)
        IN /\ \A i \in 1..4 : \A j \in 1..4 :
                 Vf[i][j] = NumSub(Vr[i][j],
                                   NumMul(expect(q[i], rho), expect(q[j], rho)))
           /\ (\A i \in 1..4 : expect(q[i], rho) = Zero) => Vf = Vr

C10_Witness ==
    /\ ret.wigner.status = "returned"
    /\ ret.wigner_R.status = "returned"
    /\ ret.wigner.value # ret.wigner_R.value

====
